---- MODULE Spec2Model ----
(***************************************************************************)
(* dli.py: a command-line client for Digital Loggers PDUs.                 *)
(*                                                                         *)
(* One behaviour of the model is one call into the program: either one    *)
(* command-line invocation (set, cycle, get configured, get physical,     *)
(* outlets) or one direct call of the client methods DLIPDU.on and        *)
(* DLIPDU.off.  The client is synchronous: it sends a request, blocks     *)
(* until the device has answered, and goes on.  The device is the         *)
(* environment: it holds the outlets and answers each request with a      *)
(* status and a body of its choice.                                        *)
(***************************************************************************)
EXTENDS Integers, Sequences, FiniteSets, TLC

VARIABLES
    dev,        \* the device's outlets, in device order (index = position - 1)
    dev0,       \* the device's outlets when the call began (history)
    cmd,        \* the command: set, cycle, configured, physical, outlets, on, off
    token,      \* the <outlet> argument, a string (sequence of characters)
    stateArg,   \* the <state> argument of set: "on" or "off"
    idxArg,     \* the outlet_idx argument of a direct DLIPDU.on / DLIPDU.off call
    pc,         \* where the call is
    idx,        \* the value _outlet2idx returned (meaningful once resolved)
    inflight,   \* the request the client is blocked on, or NoReq
    resp,       \* the device's answer to it, or NoResp
    log,        \* every request issued so far, in order
    statuses,   \* the status of every answer received so far, in order
    err,        \* "none", or the exception that ended the call
    errStatus,  \* the status an HTTPError carries
    exitCode,   \* the exit code (meaningful once pc = "done")
    out         \* what the call printed

vars == <<dev, dev0, cmd, token, stateArg, idxArg, pc, idx, inflight, resp,
          log, statuses, err, errStatus, exitCode, out>>

\* ------------------------------------------------------------------ bounds

MaxOutlets == 2

\* ------------------------------------------------------------- JSON values

Null == [t |-> "null", v |-> 0]
Num(n) == [t |-> "num", v |-> n]

\* Python truthiness of an optional number: None and 0 are falsy.
Truthy(d) == d.t = "num" /\ d.v # 0

\* ----------------------------------------------------------------- strings

Digits == <<"0", "1", "2", "3", "4", "5", "6", "7", "8", "9">>

IsDigit(c) == \E k \in 1..10 : Digits[k] = c

DigitVal(c) == (CHOOSE k \in 1..10 : Digits[k] = c) - 1

RECURSIVE DigitsVal(_)
DigitsVal(s) ==
    IF s = <<>> THEN 0
    ELSE 10 * DigitsVal(SubSeq(s, 1, Len(s) - 1)) + DigitVal(s[Len(s)])

RECURSIVE LStrip(_)
LStrip(s) == IF s # <<>> /\ s[1] = " " THEN LStrip(Tail(s)) ELSE s

RECURSIVE RStrip(_)
RStrip(s) ==
    IF s # <<>> /\ s[Len(s)] = " " THEN RStrip(SubSeq(s, 1, Len(s) - 1)) ELSE s

HasSign(s) == s # <<>> /\ s[1] \in {"+", "-"}

Unsigned(s) == IF HasSign(s) THEN Tail(s) ELSE s

\* The digit groups of an integer literal: digits, single underscores between them.
WellGrouped(s) ==
    /\ s # <<>>
    /\ IsDigit(s[1])
    /\ IsDigit(s[Len(s)])
    /\ \A k \in 1..Len(s) : IsDigit(s[k]) \/ s[k] = "_"
    /\ \A k \in 1..(Len(s) - 1) : ~(s[k] = "_" /\ s[k + 1] = "_")

DropUnderscores(s) == SelectSeq(s, IsDigit)

\* int(outlet) raises ValueError unless the string is an integer literal.
IntParses(s) == WellGrouped(Unsigned(RStrip(LStrip(s))))

\* int(outlet) for a string that is an integer literal.
IntOf(s) ==
    LET body == RStrip(LStrip(s))
        mag == DigitsVal(DropUnderscores(Unsigned(body)))
    IN IF HasSign(body) /\ body[1] = "-" THEN 0 - mag ELSE mag

\* str(i) for a natural number.
RECURSIVE StrOfNat(_)
StrOfNat(n) ==
    IF n < 10 THEN <<Digits[n + 1]>>
    ELSE Append(StrOfNat(n \div 10), Digits[(n % 10) + 1])

\* ---------------------------------------------------------------- requests

NoReq == [method |-> "none", ep |-> "none", idx |-> 0, body |-> FALSE]

NoResp == [status |-> 0, kind |-> "none", b |-> FALSE, list |-> <<>>]

\* DLIPDU.set_state: PUT /restapi/relay/outlets/{outlet_idx}/state/ with json=state.
set_state(outlet_idx, state) ==
    [method |-> "PUT", ep |-> "state", idx |-> outlet_idx, body |-> state]

\* DLIPDU.on.
on(outlet_idx) == set_state(outlet_idx, TRUE)

\* DLIPDU.off: the source passes True here as well.
off(outlet_idx) == set_state(outlet_idx, TRUE)

\* DLIPDU.cycle: POST /restapi/relay/outlets/{outlet_idx}/cycle/.
cycle(outlet_idx) ==
    [method |-> "POST", ep |-> "cycle", idx |-> outlet_idx, body |-> FALSE]

\* DLIPDU.configured_state: GET /restapi/relay/outlets/{outlet_idx}/state/.
configured_state(outlet_idx) ==
    [method |-> "GET", ep |-> "state", idx |-> outlet_idx, body |-> FALSE]

\* DLIPDU.physical_state: GET /restapi/relay/outlets/{outlet_idx}/physical_state/.
physical_state(outlet_idx) ==
    [method |-> "GET", ep |-> "physical_state", idx |-> outlet_idx, body |-> FALSE]

\* DLIPDU.outlets: GET /restapi/relay/outlets/.
outlets == [method |-> "GET", ep |-> "outlets", idx |-> 0, body |-> FALSE]

\* Mutant of RaisesForStatus: only a 5xx status raises.
RaisesForServerError(status) == 500 <= status /\ status < 600

\* r.raise_for_status() raises HTTPError for a 4xx or 5xx status.
RaisesForStatus(status) == 400 <= status /\ status < 600

\* r.json() raises JSONDecodeError when the body is not JSON.
JsonFails(r) == r.kind = "not_json"

\* Mutant of StateIsOn: the state argument is ignored, as in DLIPDU.off.
StateAlwaysOn(st) == TRUE

\* set's second argument as it is handed to set_state: state == 'on'.
StateIsOn(st) == st = "on"

\* The positions of the outlets of a list whose name is the token.
Matches(list, tok) == {i \in 1..Len(list) : list[i].name = tok}

\* Mutant of ScanResult: the loop keeps going and the last match wins.
ScanResultLast(list, tok) ==
    (CHOOSE i \in Matches(list, tok) : \A j \in Matches(list, tok) : i >= j) - 1

\* The loop of _outlet2idx: the first i of enumerate(outlets) with
\* o['name'] == outlet.
ScanResult(list, tok) ==
    (CHOOSE i \in Matches(list, tok) : \A j \in Matches(list, tok) : i <= j) - 1

\* _on.
_on(x) == IF x THEN "on" ELSE "off"

Placeholder == <<"~">>

\* One row of the table: str(i), name, _on(state), _on(physical_state),
\* str(cycle_delay or placeholder).
Row(i, o) ==
    <<StrOfNat(i), o.name, _on(o.state), _on(o.physical_state),
      IF Truthy(o.cycle_delay) THEN StrOfNat(o.cycle_delay.v) ELSE Placeholder>>

\* outlet['cycle_delay'] raises KeyError when the object has no such key.
RowFails(o) == o.cycle_delay.t = "absent"

\* ------------------------------------------------------------------ inputs

Absent == [t |-> "absent", v |-> 0]

Names == {<<"a">>, <<"b">>, <<"1">>}

Tokens ==
    {<<"0">>, <<"1">>, <<"7">>, <<"-", "1">>, <<"+", "1">>, <<" ", "1">>,
     <<"1", "_", "0">>, <<"0", "1">>,
     <<"a">>, <<"b">>, <<"c">>, <<"1", "a">>, <<"-">>, <<"1", "_">>, <<>>}

Statuses == {200, 204, 404, 500}

ErrorStatuses == {404, 500}

TokenCmds == {"set", "cycle", "configured", "physical"}

ApiCmds == {"on", "off"}

\* A device at rest: every outlet's physical state is its configured state.
SettledOutlets ==
    {[name |-> n, state |-> s, physical_state |-> s, cycle_delay |-> Null] :
        n \in Names, s \in BOOLEAN}

AnyOutlets ==
    [name : {<<"a">>, <<"b">>}, state : BOOLEAN, physical_state : BOOLEAN,
     cycle_delay : {Null, Absent, Num(0), Num(5), Num(12)}]

Devices(S) == UNION {[1..n -> S] : n \in 0..MaxOutlets}

InRange(i) == 0 <= i /\ i < Len(dev)

InitCall(c) ==
    /\ cmd = c
    /\ dev0 = dev
    /\ pc = "start"
    /\ idx = 0
    /\ inflight = NoReq
    /\ resp = NoResp
    /\ log = <<>>
    /\ statuses = <<>>
    /\ err = "none"
    /\ errStatus = 0
    /\ exitCode = 0
    /\ out = <<>>

Init ==
    /\ dev \in Devices(SettledOutlets)
    /\ \E c \in TokenCmds \cup ApiCmds \cup {"outlets"} : InitCall(c)
    /\ token \in IF cmd \in TokenCmds THEN Tokens ELSE {<<>>}
    /\ stateArg \in IF cmd = "set" THEN {"on", "off"} ELSE {"off"}
    /\ idxArg \in IF cmd \in ApiCmds THEN -1..MaxOutlets ELSE {0}

InitRender ==
    /\ dev \in Devices(AnyOutlets)
    /\ InitCall("outlets")
    /\ token = <<>>
    /\ stateArg = "off"
    /\ idxArg = 0

\* ------------------------------------------------------------------ client

\* The client issues request r and blocks on it.
Send(r, next) ==
    /\ inflight = NoReq
    /\ inflight' = r
    /\ log' = Append(log, r)
    /\ pc' = next
    /\ UNCHANGED <<dev, dev0, cmd, token, stateArg, idxArg, idx, resp,
                   statuses, err, errStatus, exitCode, out>>

\* The answer to the request in flight is taken off the wire.
Taken ==
    /\ inflight # NoReq
    /\ resp # NoResp
    /\ inflight' = NoReq
    /\ resp' = NoResp
    /\ statuses' = Append(statuses, resp.status)
    /\ UNCHANGED <<dev, dev0, cmd, token, stateArg, idxArg, log>>

\* The call ends: normally (e = "none", exit code 0) or with exception e.
Finish(e, st, printed) ==
    /\ pc' = "done"
    /\ err' = e
    /\ errStatus' = st
    /\ exitCode' = IF e = "none" THEN 0 ELSE 1
    /\ out' = printed

\* Mutant of ResolveNumeric: the outlet list is fetched for an integer token too.
ResolveNumericByName ==
    /\ pc = "start"
    /\ cmd \in TokenCmds
    /\ IntParses(token)
    /\ Send(outlets, "lookup")

\* _outlet2idx, try branch: int(outlet) succeeds, its value is returned.
ResolveNumeric ==
    /\ pc = "start"
    /\ cmd \in TokenCmds
    /\ IntParses(token)
    /\ idx' = IntOf(token)
    /\ pc' = "resolved"
    /\ UNCHANGED <<dev, dev0, cmd, token, stateArg, idxArg, inflight, resp,
                   log, statuses, err, errStatus, exitCode, out>>

\* _outlet2idx, except branch: int(outlet) raised ValueError; self.outlets().
LookupSend ==
    /\ pc = "start"
    /\ cmd \in TokenCmds
    /\ ~IntParses(token)
    /\ Send(outlets, "lookup")

\* Mutant of LookupRecv: a name that matches no outlet falls back to outlet 0.
LookupRecvFallback ==
    /\ pc = "lookup"
    /\ Taken
    /\ IF JsonFails(resp)
       THEN Finish("JSONDecodeError", 0, <<>>) /\ UNCHANGED idx
       ELSE IF resp.kind # "list"
       THEN Finish("TypeError", 0, <<>>) /\ UNCHANGED idx
       ELSE /\ idx' = IF Matches(resp.list, token) # {}
                      THEN ScanResult(resp.list, token) ELSE 0
            /\ pc' = "resolved"
            /\ UNCHANGED <<err, errStatus, exitCode, out>>

\* _outlet2idx, except branch: r.json() and the scan of the list.
LookupRecv ==
    /\ pc = "lookup"
    /\ Taken
    /\ IF JsonFails(resp)
       THEN Finish("JSONDecodeError", 0, <<>>) /\ UNCHANGED idx
       ELSE IF resp.kind # "list"
       THEN Finish("TypeError", 0, <<>>) /\ UNCHANGED idx
       ELSE IF Matches(resp.list, token) # {}
       THEN /\ idx' = ScanResult(resp.list, token)
            /\ pc' = "resolved"
            /\ UNCHANGED <<err, errStatus, exitCode, out>>
       ELSE Finish("KeyError", 0, <<>>) /\ UNCHANGED idx

\* set: set_state(_outlet2idx(outlet), state == 'on').
SetSend ==
    /\ pc = "resolved"
    /\ cmd = "set"
    /\ Send(set_state(idx, StateIsOn(stateArg)), "op")

\* cycle: cycle(_outlet2idx(outlet)).
CycleSend ==
    /\ pc = "resolved"
    /\ cmd = "cycle"
    /\ Send(cycle(idx), "op")

\* configured: configured_state(_outlet2idx(outlet)).
ConfiguredSend ==
    /\ pc = "resolved"
    /\ cmd = "configured"
    /\ Send(configured_state(idx), "op")

\* physical: physical_state(_outlet2idx(outlet)).
PhysicalSend ==
    /\ pc = "resolved"
    /\ cmd = "physical"
    /\ Send(physical_state(idx), "op")

\* outlets: self.outlets().
OutletsSend ==
    /\ pc = "start"
    /\ cmd = "outlets"
    /\ Send(outlets, "op")

\* A direct call of DLIPDU.on(outlet_idx).
OnSend ==
    /\ pc = "start"
    /\ cmd = "on"
    /\ Send(on(idxArg), "op")

\* A direct call of DLIPDU.off(outlet_idx).
OffSend ==
    /\ pc = "start"
    /\ cmd = "off"
    /\ Send(off(idxArg), "op")

\* Mutant of WriteRecv: a write answered with an error status is sent again.
WriteRecvRetry ==
    /\ pc = "op"
    /\ cmd \in {"set", "cycle", "on", "off"}
    /\ inflight # NoReq
    /\ resp # NoResp
    /\ resp' = NoResp
    /\ statuses' = Append(statuses, resp.status)
    /\ IF RaisesForStatus(resp.status)
       THEN /\ inflight' = inflight
            /\ log' = Append(log, inflight)
            /\ UNCHANGED <<pc, err, errStatus, exitCode, out>>
       ELSE /\ inflight' = NoReq
            /\ Finish("none", 0, <<>>)
            /\ UNCHANGED log
    /\ UNCHANGED <<dev, dev0, cmd, token, stateArg, idxArg, idx>>

\* set_state and cycle after the request: r.raise_for_status().
WriteRecv ==
    /\ pc = "op"
    /\ cmd \in {"set", "cycle", "on", "off"}
    /\ Taken
    /\ IF RaisesForStatus(resp.status)
       THEN Finish("HTTPError", resp.status, <<>>)
       ELSE Finish("none", 0, <<>>)
    /\ UNCHANGED idx

\* configured_state and physical_state after the request: print(r.json()).
ReadRecv ==
    /\ pc = "op"
    /\ cmd \in {"configured", "physical"}
    /\ Taken
    /\ IF JsonFails(resp)
       THEN Finish("JSONDecodeError", 0, <<>>)
       ELSE Finish("none", 0, <<[kind |-> resp.kind, b |-> resp.b]>>)
    /\ UNCHANGED idx

\* The rows the loop of outlets adds, or the exception it ends with.
RECURSIVE Rows(_, _)
Rows(list, i) ==
    IF i >= Len(list) THEN <<>> ELSE <<Row(i, list[i + 1])>> \o Rows(list, i + 1)

\* outlets after the request: r.json(), one add_row per outlet, rprint(table).
OutletsRecv ==
    /\ pc = "op"
    /\ cmd = "outlets"
    /\ Taken
    /\ IF JsonFails(resp)
       THEN Finish("JSONDecodeError", 0, <<>>)
       ELSE IF resp.kind # "list"
       THEN Finish("TypeError", 0, <<>>)
       ELSE IF \E k \in 1..Len(resp.list) : RowFails(resp.list[k])
       THEN Finish("KeyError", 0, <<>>)
       ELSE Finish("none", 0, Rows(resp.list, 0))
    /\ UNCHANGED idx

\* ------------------------------------------------------------------ device

ClientVars ==
    <<dev0, cmd, token, stateArg, idxArg, pc, idx, inflight, log, statuses,
      err, errStatus, exitCode, out>>

Asked(method, ep) ==
    /\ inflight # NoReq
    /\ resp = NoResp
    /\ inflight.method = method
    /\ inflight.ep = ep

Answer(status, kind, b, list) ==
    resp' = [status |-> status, kind |-> kind, b |-> b, list |-> list]

\* The body of an answer with an error status: a JSON object or not JSON.
ErrorKinds == {"object", "not_json"}

\* PUT .../state/: a success status sets the outlet's configured state; the
\* physical state follows at once or later.
DevicePut ==
    /\ Asked("PUT", "state")
    /\ \E st \in Statuses, lag \in BOOLEAN :
        /\ st \in ErrorStatuses \/ InRange(inflight.idx)
        /\ Answer(st, "empty", FALSE, <<>>)
        /\ dev' = IF st \in ErrorStatuses THEN dev
                  ELSE [dev EXCEPT ![inflight.idx + 1] =
                            [@ EXCEPT !.state = inflight.body,
                                      !.physical_state =
                                          IF lag THEN @ ELSE inflight.body]]
    /\ UNCHANGED ClientVars

\* POST .../cycle/: a success status switches an outlet that is on off; it
\* comes back on later.
DevicePost ==
    /\ Asked("POST", "cycle")
    /\ \E st \in Statuses :
        /\ st \in ErrorStatuses \/ InRange(inflight.idx)
        /\ Answer(st, "empty", FALSE, <<>>)
        /\ dev' = IF st \in ErrorStatuses THEN dev
                  ELSE [dev EXCEPT ![inflight.idx + 1].physical_state = FALSE]
    /\ UNCHANGED ClientVars

\* GET .../state/ and GET .../physical_state/: a JSON boolean.
DeviceGetState ==
    /\ Asked("GET", "state")
    /\ \E st \in Statuses, k \in ErrorKinds :
        /\ st \in ErrorStatuses \/ InRange(inflight.idx)
        /\ IF st \in ErrorStatuses
           THEN Answer(st, k, FALSE, <<>>)
           ELSE Answer(st, "bool", dev[inflight.idx + 1].state, <<>>)
    /\ UNCHANGED dev
    /\ UNCHANGED ClientVars

DeviceGetPhysical ==
    /\ Asked("GET", "physical_state")
    /\ \E st \in Statuses, k \in ErrorKinds :
        /\ st \in ErrorStatuses \/ InRange(inflight.idx)
        /\ IF st \in ErrorStatuses
           THEN Answer(st, k, FALSE, <<>>)
           ELSE Answer(st, "bool", dev[inflight.idx + 1].physical_state, <<>>)
    /\ UNCHANGED dev
    /\ UNCHANGED ClientVars

\* GET /restapi/relay/outlets/: the JSON array of the outlets, in index order.
DeviceGetOutlets ==
    /\ Asked("GET", "outlets")
    /\ \E st \in Statuses, k \in ErrorKinds :
        IF st \in ErrorStatuses
        THEN Answer(st, k, FALSE, <<>>)
        ELSE Answer(st, "list", FALSE, dev)
    /\ UNCHANGED dev
    /\ UNCHANGED ClientVars

\* An outlet whose physical state lags its configured state catches up.
DeviceSettle ==
    /\ \E i \in 1..Len(dev) :
        /\ dev[i].physical_state # dev[i].state
        /\ dev' = [dev EXCEPT ![i].physical_state = dev[i].state]
    /\ UNCHANGED resp
    /\ UNCHANGED ClientVars

\* ---------------------------------------------------------- specifications

Next ==
    \/ ResolveNumeric
    \/ LookupSend
    \/ LookupRecv
    \/ SetSend
    \/ CycleSend
    \/ ConfiguredSend
    \/ PhysicalSend
    \/ OutletsSend
    \/ OnSend
    \/ OffSend
    \/ WriteRecv
    \/ ReadRecv
    \/ OutletsRecv
    \/ DevicePut
    \/ DevicePost
    \/ DeviceGetState
    \/ DeviceGetPhysical
    \/ DeviceGetOutlets
    \/ DeviceSettle

Spec == Init /\ [][Next]_vars

NextRender ==
    \/ OutletsSend
    \/ OutletsRecv
    \/ DeviceGetOutlets

SpecRender == InitRender /\ [][NextRender]_vars

\* ------------------------------------------------------------------ claims

IsWrite(r) == r.method \in {"PUT", "POST"}

HasWrite == \E k \in 1..Len(log) : IsWrite(log[k])

LastStatus == statuses[Len(statuses)]

\* The name lookup of a token that is no integer literal found no outlet.
NoSuchName == cmd \in TokenCmds /\ ~IntParses(token) /\ Matches(dev0, token) = {}

\* A token written as a plain decimal numeral: digits only, no leading zero.
PlainNumeral(s) ==
    /\ s # <<>>
    /\ \A k \in 1..Len(s) : IsDigit(s[k])
    /\ Len(s) = 1 \/ s[1] # "0"

\* C1: DLIPDU.off(i) issues the write of set_state(i, False) and DLIPDU.on(i)
\* the write of set_state(i, True); once off(i) has returned normally the
\* configured state of outlet i is off.
C1_OffSetsFalse ==
    InRange(idxArg) =>
        /\ (cmd = "off" /\ log # <<>>) => log[1] = set_state(idxArg, FALSE)
        /\ (cmd = "on" /\ log # <<>>) => log[1] = set_state(idxArg, TRUE)
        /\ (cmd = "off" /\ pc = "done" /\ err = "none") => ~dev[idxArg + 1].state

\* C2: a token that is an integer literal resolves to that integer with no
\* request issued, whatever the outlets are called; the outlet list is never
\* fetched for it.
C2_NumericTokenSkipsLookup ==
    (cmd \in TokenCmds /\ IntParses(token)) =>
        /\ pc # "lookup"
        /\ \A k \in 1..Len(log) : log[k] # outlets
        /\ pc = "resolved" => (log = <<>> /\ statuses = <<>> /\ idx = IntOf(token))
        /\ (pc = "resolved" /\ PlainNumeral(token)) => StrOfNat(idx) = token
        /\ log # <<>> => log[1].idx = IntOf(token)

C2_Witness ==
    /\ cmd \in TokenCmds
    /\ token = <<"1">>
    /\ pc = "resolved"
    /\ idx = 1
    /\ log = <<>>
    /\ Len(dev) >= 1
    /\ dev[1].name = <<"1">>

\* C3 as stated: a token that is no integer literal resolves to i only when
\* outlet i is the one and only outlet with that name, and the lookup ends
\* with KeyError when the reported list has no outlet of that name.
C3_OnlyMatch ==
    (cmd \in TokenCmds /\ ~IntParses(token)) =>
        /\ (pc \in {"resolved", "op"} \/ Len(log) = 2)
               => Matches(dev0, token) = {idx + 1}
        /\ err = "KeyError" => Matches(dev0, token) = {}
        /\ (pc = "done" /\ statuses[1] \notin ErrorStatuses /\ Matches(dev0, token) = {})
               => err = "KeyError"

\* C3 as amended: a token that is no integer literal resolves to i only when
\* outlet i is the first outlet of the reported list with exactly that name,
\* and the lookup ends with KeyError when the list has no outlet of that name.
C3_FirstMatch ==
    (cmd \in TokenCmds /\ ~IntParses(token)) =>
        /\ (pc \in {"resolved", "op"} \/ Len(log) = 2)
               => /\ idx + 1 \in Matches(dev0, token)
                  /\ \A j \in Matches(dev0, token) : idx + 1 <= j
        /\ err = "KeyError" => Matches(dev0, token) = {}
        /\ (pc = "done" /\ statuses[1] \notin ErrorStatuses /\ Matches(dev0, token) = {})
               => err = "KeyError"

\* Two outlets carry the name; the lookup has returned the lower index.
C3_Witness ==
    /\ cmd \in TokenCmds
    /\ token = <<"b">>
    /\ pc = "resolved"
    /\ idx = 0
    /\ Len(dev) = 2
    /\ dev[1].name = <<"b">>
    /\ dev[2].name = <<"b">>

\* C4: set_state and cycle return normally exactly when the device answers
\* the write with a non-error status, and otherwise raise HTTPError carrying
\* that status.
C4_WriteFailsOnErrorStatus ==
    (pc = "done" /\ HasWrite) =>
        /\ err = "none" <=> LastStatus \notin ErrorStatuses
        /\ LastStatus \in ErrorStatuses
               => (err = "HTTPError" /\ errStatus = LastStatus /\ exitCode # 0)

C4_Witness ==
    /\ pc = "done"
    /\ cmd = "cycle"
    /\ log = <<outlets, cycle(0)>>
    /\ statuses = <<200, 404>>
    /\ err = "HTTPError"
    /\ errStatus = 404

\* C5: an invocation ends with exit code 0 only if every request it issued
\* was answered with a non-error status.
C5_ExitZeroOnlyOnSuccess ==
    (pc = "done" /\ cmd \notin ApiCmds /\ exitCode = 0) =>
        \A k \in 1..Len(statuses) : statuses[k] \notin ErrorStatuses

\* C6: the index passed to set_state, cycle, configured_state and
\* physical_state after _outlet2idx is in [0, N), N the number of outlets
\* (stated here for a device that has outlets).
C6_IndexInRange ==
    (cmd \in TokenCmds /\ Len(dev0) > 0) =>
        \A k \in 1..Len(log) :
            log[k] # outlets => (0 <= log[k].idx /\ log[k].idx < Len(dev0))

\* C7: an invocation issues at most two requests, one after the other: the
\* lookup of the outlet list, only for a token that is no integer literal and
\* answered before the next request is sent, then the operation's one
\* request; an integer token gives exactly one request and outlets one GET.
C7_AtMostTwoSequential ==
    /\ Len(log) <= 2
    /\ Len(log) - Len(statuses) = IF inflight = NoReq THEN 0 ELSE 1
    /\ Len(log) = 2
           => /\ cmd \in TokenCmds
              /\ ~IntParses(token)
              /\ log[1] = outlets
              /\ log[2] # outlets
    /\ (cmd \in TokenCmds /\ ~IntParses(token) /\ log # <<>>) => log[1] = outlets
    /\ (pc = "done" /\ cmd \in TokenCmds /\ IntParses(token))
           => (Len(log) = 1 /\ log[1] # outlets)
    /\ (pc = "done" /\ cmd \in ApiCmds) => Len(log) = 1
    /\ (pc = "done" /\ cmd = "outlets") => log = <<outlets>>
    /\ (pc = "done" /\ cmd \in TokenCmds /\ ~IntParses(token) /\ Len(log) = 1)
           => err \in {"KeyError", "TypeError", "JSONDecodeError"}

C7_Witness ==
    /\ pc = "done"
    /\ cmd = "set"
    /\ Len(log) = 2
    /\ statuses = <<200, 500>>

\* C8: the table has one row per outlet in device order: str(i), the name,
\* on/off for the configured and the physical state, and the seconds whenever
\* cycle_delay is a number (0 too), the placeholder when it is null.
C8_RowPerOutlet ==
    (/\ pc = "done"
     /\ cmd = "outlets"
     /\ statuses[1] \notin ErrorStatuses
     /\ \A i \in 1..Len(dev0) : dev0[i].cycle_delay # Absent) =>
        /\ err = "none"
        /\ Len(out) = Len(dev0)
        /\ \A i \in 1..Len(dev0) :
            out[i] = <<StrOfNat(i - 1),
                       dev0[i].name,
                       IF dev0[i].state THEN "on" ELSE "off",
                       IF dev0[i].physical_state THEN "on" ELSE "off",
                       IF dev0[i].cycle_delay.t = "num"
                       THEN StrOfNat(dev0[i].cycle_delay.v) ELSE Placeholder>>

\* C9: a set or cycle whose outlet name matches no outlet issues no PUT or
\* POST and leaves the device as it was; lookups and the reading commands
\* never write; only the one write of set, cycle, on or off can change the
\* device, and only the outlet it names.
C9_NoPartialApplication ==
    /\ Len(dev) = Len(dev0)
    /\ (NoSuchName \/ err = "KeyError") => (~HasWrite /\ dev = dev0)
    /\ cmd \in {"configured", "physical", "outlets"} => (~HasWrite /\ dev = dev0)
    /\ pc \in {"start", "lookup", "resolved"} => (~HasWrite /\ dev = dev0)
    /\ \A k \in 1..Len(log) : IsWrite(log[k]) => k = Len(log)
    /\ \A i \in 1..Len(dev) :
        dev[i] # dev0[i]
            => /\ HasWrite
               /\ log[Len(log)].idx = i - 1
               /\ cmd \in TokenCmds => idx = i - 1

C9_Witness ==
    /\ pc = "done"
    /\ cmd = "set"
    /\ token = <<"c">>
    /\ err = "KeyError"
    /\ Len(dev) = 2
    /\ log = <<outlets>>

\* C10: set <outlet> off sends the write with body false and set <outlet> on
\* with body true, to the resolved outlet; after an acknowledged set the
\* outlet's configured state is the requested one.
C10_SetSendsRequestedState ==
    cmd = "set" =>
        /\ \A k \in 1..Len(log) :
            log[k] # outlets
                => log[k] = [method |-> "PUT", ep |-> "state", idx |-> idx,
                             body |-> (stateArg = "on")]
        /\ (pc = "done" /\ err = "none") => dev[idx + 1].state = (stateArg = "on")

C10_Witness ==
    /\ cmd = "set"
    /\ stateArg = "off"
    /\ token = <<"a">>
    /\ pc = "done"
    /\ err = "none"
    /\ dev0[idx + 1].state
    /\ ~dev[idx + 1].state

====
